---- MODULE Spec2Model ----
(***************************************************************************)
(* A model of newproject.py: the provider-directory scraper, its tool      *)
(* dispatcher, the assistant-identifier cache and the conversation loop    *)
(* that drives a hosted assistant run.                                     *)
(*                                                                         *)
(* Python values are records [type, v]; a Python string is the sequence of *)
(* its fragments (an f-string is the concatenation of its parts).          *)
(***************************************************************************)
EXTENDS Naturals, Sequences, FiniteSets, TLC

\* ------------------------------------------------------------------ bounds
MaxBatch == 3       \* tool calls in one required_action batch
MaxRounds == 2      \* times one run may ask for tool outputs
MaxParts == 2       \* content parts of the last message
MaxLaunches == 4    \* application runs
MaxNodes == 3       \* sibling nodes at the top of a results page
MaxTextLen == 4     \* tokens in the text of an info-list item
MaxTurns == 2       \* turns of one session on its thread

\* ------------------------------------------------------------- Python values
PyStr(frags) == [type |-> "str", v |-> frags]
PyNone == [type |-> "NoneType", v |-> <<>>]
PyDict(keys) == [type |-> "dict", v |-> keys]

Return(value) == [kind |-> "return", value |-> value]
Raise(message) == [kind |-> "raise", value |-> PyStr(<<message>>)]

\* ------------------------------------------------------------ tool registry
available_functions == {"scrape_content", "scrape_provider_search"}

\* Names the hosted agent may put in a tool call: the two registered
\* functions and one that the registry does not hold.
ToolNames == available_functions \cup {"code_lookup"}

\* What the body of a registered tool may do once it has been entered with
\* its url: scrape_content returns a dict or None; scrape_provider_search
\* returns JSON text (records or the error object); either may raise.
ToolBehaviours(name) ==
    IF name = "scrape_content"
    THEN {Return(PyDict(<<"content", "links">>)), Return(PyNone), Raise("boom")}
    ELSE {Return(PyStr(<<"[records]">>)), Return(PyStr(<<"{error}">>)),
          Raise("list index out of range")}

\* func(**kwargs) for a tool declared as def tool(url): the binding of the
\* keyword arguments fails unless they are exactly {url}.
CallFunction(keys, behaviour) ==
    IF "url" \notin keys THEN Raise("missing 1 required positional argument: 'url'")
    ELSE IF keys # {"url"} THEN Raise("got an unexpected keyword argument")
    ELSE behaviour

\* The parameters safe_tool_call itself declares before **kwargs.
SafeToolCallParams == {"func", "tool_name"}

\* safe_tool_call(func, tool_name, **kwargs): a keyword named like one of its
\* own parameters fails the call itself, before the try is entered.
safe_tool_call(tool_name, keys, behaviour) ==
    IF keys \cap SafeToolCallParams # {}
    THEN Raise("safe_tool_call() got multiple values for argument")
    ELSE LET r == CallFunction(keys, behaviour)
         IN  IF r.kind = "raise"
             THEN Return(PyStr(<<"Error occurred in ", tool_name, ": ">> \o r.value.v))
             ELSE IF r.value = PyNone
                  THEN Return(PyStr(<<"No content returned from ", tool_name>>))
                  ELSE r

\* ------------------------------------------------------------------ state
VARIABLES
    pc,            \* position of get_agent_response (and of main before it)
    run,           \* status of the local variable run, "None" for None
    remote,        \* status of the run held by the assistant service
    batch,         \* run.required_action.submit_tool_outputs.tool_calls
    idx,           \* position of the for loop of handle_tool_outputs
    tool_outputs,  \* the list handle_tool_outputs builds
    executed,      \* ids of the calls whose tool function was dispatched
    lastSub,       \* the submit_tool_outputs request made by this handling
    failed,        \* ids of the calls of this handling that failed
    pending,       \* a polled requires_action batch has not been submitted
    nRA,           \* polls that found the run in requires_action
    nSub,          \* submit_tool_outputs requests made
    rounds,        \* times the run has asked for tool outputs
    failure,       \* which request or step of this turn failed, if any
    result,        \* what get_agent_response returned
    earlier,       \* statuses of the runs of the earlier turns on the thread
    file,          \* content of assistant_id23.txt, "absent" if missing
    assistants,    \* identifiers of the assistants the service has created
    assistant_id,  \* what get_or_create_assistant returned to main
    launches,      \* application runs so far
    fileAtLaunch,  \* what the file held when the last run started
    created,       \* the last run created a remote assistant
    tname, tkeys, tbehaviour, tresult,   \* one dispatch through safe_tool_call
    page,          \* the markup the proxy would serve for the url
    status_code,   \* the outcome of requests.get: a status code, 0 for an exception
    fetched,       \* what fetch_html_via_proxy returned: "soup" or "None"
    sresult,       \* what scrape_provider_search returned or raised
    spc            \* position of scrape_provider_search

loopVars == <<pc, run, remote, batch, idx, tool_outputs, executed, lastSub,
              failed, pending, nRA, nSub, rounds, failure, result, earlier>>
asstVars == <<file, assistants, assistant_id, launches, fileAtLaunch, created>>
toolVars == <<tname, tkeys, tbehaviour, tresult>>
searchVars == <<page, status_code, fetched, sresult, spc>>
vars == <<loopVars, asstVars, toolVars, searchVars>>

\* --------------------------------------------------------- conversation loop
Active == {"queued", "in_progress"}
Terminal == {"completed", "failed", "expired"}

\* call.function.arguments as the agent wrote it: text json.loads rejects, or
\* a JSON object with these keys.
RawArguments ==
    {[valid |-> FALSE, keys |-> {}]} \cup
    {[valid |-> TRUE, keys |-> k] : k \in {{}, {"url"}, {"url", "tool_name"}}}

CallIds == <<"call_1", "call_2", "call_3", "call_4">>

ToolCall(i, name, arguments) == [id |-> CallIds[i], name |-> name, arguments |-> arguments]

\* What one call may name and carry: a registered function with any of the
\* arguments above, or an unregistered name (its arguments are never read).
CallShapes ==
    (available_functions \X RawArguments) \cup
    ((ToolNames \ available_functions) \X {[valid |-> TRUE, keys |-> {"url"}]})

\* The batches a run may ask for: 1..MaxBatch calls, ids by position.
Batches ==
    UNION {{[i \in 1..n |-> ToolCall(i, f[i][1], f[i][2])] :
              f \in [1..n -> CallShapes]} : n \in 1..MaxBatch}

\* json.dumps(output)
JsonDumps(value) == [json |-> value]

\* Variant: the output keyed by the function name instead of the call id.
ToolOutputWrongId(call, output) == [tool_call_id |-> call.name, output |-> JsonDumps(output)]

\* The dict appended to tool_outputs for one call.
ToolOutput(call, output) == [tool_call_id |-> call.id, output |-> JsonDumps(output)]

\* Variant: a loop that polls on "queued" only.
LoopContinuesQueuedOnly(status) == status = "queued"

\* The condition of the while loop: run.status in ["queued", "in_progress"].
LoopContinues(status) == status \in Active

\* Variant: the except branch handing back the run it was given.
HandleFailedKeepsRun == "requires_action"

\* What handle_tool_outputs returns from its except branch: None.
HandleFailed == "None"

ErrorResult(message) ==
    [response |-> <<"Error: ", message>>, download_links |-> <<>>, images |-> <<>>]

NoSub == [made |-> FALSE, ok |-> FALSE, calls |-> <<>>, outputs |-> <<>>]

\* The except branch of get_agent_response.
Abort(kind, message) ==
    /\ failure' = (IF failure = "none" THEN kind ELSE failure)
    /\ result' = ErrorResult(message)
    /\ pc' = "done"

handleVars == <<batch, idx, tool_outputs, executed, lastSub, failed>>
countVars == <<pending, nRA, nSub>>
otherVars == <<asstVars, toolVars, searchVars>>

\* main: the Send button with a non-empty prompt.
Send ==
    /\ pc = "idle"
    /\ pc' = "msg"
    /\ UNCHANGED <<run, remote, rounds, failure, result>>
    /\ UNCHANGED <<handleVars, countVars, otherVars, earlier>>

\* client.beta.threads.messages.create
MessagesCreate ==
    /\ pc = "msg"
    /\ \/ /\ pc' = "create"
          /\ UNCHANGED <<failure, result>>
       \/ Abort("message", "messages.create failed")
    /\ UNCHANGED <<run, remote, rounds>>
    /\ UNCHANGED <<handleVars, countVars, otherVars, earlier>>

\* client.beta.threads.runs.create
RunsCreate ==
    /\ pc = "create"
    /\ \/ /\ run' = "queued"
          /\ remote' = "queued"
          /\ pc' = "loop"
          /\ UNCHANGED <<failure, result>>
       \/ /\ Abort("create", "runs.create failed")
          /\ UNCHANGED <<run, remote>>
    /\ UNCHANGED rounds
    /\ UNCHANGED <<handleVars, countVars, otherVars, earlier>>

\* The while condition; run.status of None raises AttributeError.
LoopCheck ==
    /\ pc = "loop"
    /\ \/ /\ run = "None"
          /\ Abort("loop", "'NoneType' object has no attribute 'status'")
       \/ /\ run # "None"
          /\ pc' = (IF LoopContinues(run) THEN "retrieve" ELSE "read")
          /\ UNCHANGED <<failure, result>>
    /\ UNCHANGED <<run, remote, rounds>>
    /\ UNCHANGED <<handleVars, countVars, otherVars, earlier>>

\* client.beta.threads.runs.retrieve, and the entry of handle_tool_outputs
\* when the polled status is requires_action; the tool calls the run waits
\* for become known to the program with this poll.
Retrieve ==
    /\ pc = "retrieve"
    /\ \/ /\ run' = remote
          /\ IF remote = "requires_action"
             THEN /\ pc' = "handle"
                  /\ batch' \in Batches
                  /\ idx' = 1
                  /\ tool_outputs' = <<>>
                  /\ executed' = <<>>
                  /\ failed' = {}
                  /\ lastSub' = NoSub
                  /\ pending' = TRUE
                  /\ nRA' = nRA + 1
                  /\ UNCHANGED nSub
             ELSE /\ pc' = "sleep"
                  /\ UNCHANGED <<handleVars, countVars>>
          /\ UNCHANGED <<failure, result>>
       \/ /\ Abort("poll", "runs.retrieve failed")
          /\ UNCHANGED <<run, handleVars, countVars>>
    /\ UNCHANGED <<remote, rounds>>
    /\ UNCHANGED <<otherVars, earlier>>

\* The except branch of handle_tool_outputs, entered from the call at idx.
HandleAbort(kind) ==
    /\ run' = HandleFailed
    /\ failure' = kind
    /\ failed' = failed \cup {batch[idx].id}
    /\ pc' = "sleep"
    /\ UNCHANGED <<batch, idx, tool_outputs, executed, lastSub>>

\* One iteration of the for loop of handle_tool_outputs.
HandleCall ==
    /\ pc = "handle"
    /\ idx <= Len(batch)
    /\ LET call == batch[idx] IN
         IF call.name \notin available_functions
         THEN HandleAbort("lookup")
         ELSE IF ~call.arguments.valid
         THEN HandleAbort("arguments")
         ELSE \E b \in ToolBehaviours(call.name) :
                LET out == safe_tool_call(call.name, call.arguments.keys, b) IN
                  IF out.kind = "raise"
                  THEN HandleAbort("dispatch")
                  ELSE /\ tool_outputs' = Append(tool_outputs, ToolOutput(call, out.value))
                       /\ executed' = Append(executed, call.id)
                       /\ failed' = (IF CallFunction(call.arguments.keys, b).kind = "raise"
                                     THEN failed \cup {call.id} ELSE failed)
                       /\ idx' = idx + 1
                       /\ UNCHANGED <<run, failure, pc, lastSub, batch>>
    /\ UNCHANGED <<remote, rounds, result, countVars>>
    /\ UNCHANGED <<otherVars, earlier>>

\* client.beta.threads.runs.submit_tool_outputs with the whole list; the
\* service refuses it when the run no longer waits for outputs.
Submit ==
    /\ pc = "handle"
    /\ idx > Len(batch)
    /\ \/ /\ remote = "requires_action"
          /\ remote' = "queued"
          /\ run' \in Active
          /\ pending' = FALSE
          /\ lastSub' = [made |-> TRUE, ok |-> TRUE,
                         calls |-> batch, outputs |-> tool_outputs]
          /\ UNCHANGED failure
       \/ /\ run' = HandleFailed
          /\ failure' = "submit"
          /\ lastSub' = [made |-> TRUE, ok |-> FALSE,
                         calls |-> batch, outputs |-> tool_outputs]
          /\ UNCHANGED <<remote, pending>>
    /\ nSub' = nSub + 1
    /\ pc' = "sleep"
    /\ UNCHANGED <<batch, idx, tool_outputs, executed, failed, nRA, rounds, result>>
    /\ UNCHANGED <<otherVars, earlier>>

\* await asyncio.sleep(1); the locals of a finished handle_tool_outputs die.
Sleep ==
    /\ pc = "sleep"
    /\ pc' = "loop"
    /\ batch' = <<>>
    /\ idx' = 0
    /\ tool_outputs' = <<>>
    /\ executed' = <<>>
    /\ failed' = {}
    /\ lastSub' = NoSub
    /\ UNCHANGED <<run, remote, rounds, failure, result, countVars>>
    /\ UNCHANGED <<otherVars, earlier>>

\* The content parts of a thread message: plain text, text carrying one
\* file_path annotation, an image_file, or a part of another type.
PartTypes == {"text", "text_file", "image_file", "other"}

MessageContents == UNION {[1..n -> PartTypes] : n \in 0..MaxParts}

NoResult == [response |-> <<>>, download_links |-> <<>>, images |-> <<>>]

\* The walk over last_message.content (the for loop of get_agent_response).
RECURSIVE FormatParts(_, _)
FormatParts(parts, acc) ==
    IF parts = <<>> THEN acc
    ELSE LET p == Head(parts)
             next ==
               IF p = "text"
               THEN [acc EXCEPT !.response = @ \o <<"text">>]
               ELSE IF p = "text_file"
               THEN [acc EXCEPT !.response = @ \o <<"text">>,
                                !.download_links = Append(@, <<"file_name", "bytes">>)]
               ELSE IF p = "image_file"
               THEN [acc EXCEPT !.images = Append(@, <<"file_id.png", "bytes">>),
                                !.response = @ \o <<"[Image generated: ", "file_id", ".png]\n">>]
               ELSE acc
         IN  FormatParts(Tail(parts), next)

NeedsFile(parts) == \E i \in 1..Len(parts) : parts[i] \in {"text_file", "image_file"}

\* messages.list(limit=1).data[0] and the extraction of the final answer.
ReadLast ==
    /\ pc = "read"
    /\ \/ Abort("list", "messages.list failed")
       \/ /\ result' = ErrorResult("No assistant response")
          /\ pc' = "done"
          /\ UNCHANGED failure
       \/ \E parts \in MessageContents, filesOk \in BOOLEAN :
            IF NeedsFile(parts) /\ ~filesOk
            THEN Abort("files", "files.content failed")
            ELSE /\ result' = FormatParts(parts, NoResult)
                 /\ pc' = "done"
                 /\ UNCHANGED failure
    /\ UNCHANGED <<run, remote, rounds>>
    /\ UNCHANGED <<handleVars, countVars, otherVars, earlier>>

\* The assistant service working on the run, outside the program.
RemoteAdvance ==
    /\ \/ /\ remote = "queued"
          /\ remote' = "in_progress"
          /\ UNCHANGED rounds
       \/ /\ remote = "in_progress"
          /\ remote' \in {"completed", "failed"}
          /\ UNCHANGED rounds
       \/ /\ remote = "in_progress"
          /\ rounds < MaxRounds
          /\ remote' = "requires_action"
          /\ rounds' = rounds + 1
       \/ /\ remote = "requires_action"
          /\ remote' = "expired"
          /\ UNCHANGED rounds
    /\ UNCHANGED <<pc, run, failure, result>>
    /\ UNCHANGED <<handleVars, countVars, otherVars, earlier>>

InitLoop ==
    /\ pc = "idle"
    /\ run = "unset"
    /\ remote = "none"
    /\ batch = <<>>
    /\ idx = 0
    /\ tool_outputs = <<>>
    /\ executed = <<>>
    /\ lastSub = NoSub
    /\ failed = {}
    /\ pending = FALSE
    /\ nRA = 0
    /\ nSub = 0
    /\ rounds = 0
    /\ failure = "none"
    /\ result = NoResult
    /\ earlier = <<>>

InitAsst ==
    /\ file = "absent"
    /\ assistants = {}
    /\ assistant_id = "unset"
    /\ launches = 0
    /\ fileAtLaunch = "absent"
    /\ created = FALSE

InitTool ==
    /\ tname = ""
    /\ tkeys = {}
    /\ tbehaviour = Return(PyNone)
    /\ tresult = Return(PyNone)

InitSearch ==
    /\ page = <<>>
    /\ status_code = 0
    /\ fetched = ""
    /\ sresult = Return(PyNone)
    /\ spc = ""

Init == InitLoop /\ InitAsst /\ InitTool /\ InitSearch

Next ==
    \/ Send
    \/ MessagesCreate
    \/ RunsCreate
    \/ LoopCheck
    \/ Retrieve
    \/ HandleCall
    \/ Submit
    \/ Sleep
    \/ ReadLast
    \/ RemoteAdvance

Spec == Init /\ [][Next]_vars

\* Every request and tool call returns, and the service keeps working on the
\* run until it is terminal (at most MaxRounds requests for tool outputs).
TurnStep ==
    \/ MessagesCreate \/ RunsCreate \/ LoopCheck \/ Retrieve
    \/ HandleCall \/ Submit \/ Sleep \/ ReadLast

LiveSpec == Init /\ [][Next]_vars /\ WF_vars(TurnStep) /\ WF_vars(RemoteAdvance)

\* ---------------------------------------------------------------- session
\* Several turns of one session: st.session_state.thread_id is created once
\* and get_agent_response uses the global thread for every turn.
StillRunning == {"queued", "in_progress", "requires_action"}

\* main after st.rerun(): the Send button again.  The earlier turn's run is
\* left as the service holds it; nothing retrieves or cancels it.
NextTurn ==
    /\ pc = "done"
    /\ Len(earlier) + 1 < MaxTurns
    /\ earlier' = Append(earlier, remote)
    /\ pc' = "msg"
    /\ run' = "unset"
    /\ remote' = "none"
    /\ batch' = <<>>
    /\ idx' = 0
    /\ tool_outputs' = <<>>
    /\ executed' = <<>>
    /\ lastSub' = NoSub
    /\ failed' = {}
    /\ pending' = FALSE
    /\ nRA' = 0
    /\ nSub' = 0
    /\ rounds' = 0
    /\ failure' = "none"
    /\ result' = NoResult
    /\ UNCHANGED otherVars

\* What the service may do next with a run nobody polls or answers.
ServiceSteps(status) ==
    CASE status = "queued" -> {"in_progress"}
      [] status = "in_progress" -> {"completed", "failed", "requires_action"}
      [] status = "requires_action" -> {"expired"}
      [] OTHER -> {}

\* The assistant service working on the run of an earlier turn.
EarlierAdvance ==
    /\ \E i \in DOMAIN earlier :
          \E next \in ServiceSteps(earlier[i]) :
             earlier' = [earlier EXCEPT ![i] = next]
    /\ UNCHANGED <<pc, run, remote, rounds, failure, result>>
    /\ UNCHANGED <<handleVars, countVars, otherVars>>

NextSession ==
    \/ Next
    \/ NextTurn
    \/ EarlierAdvance

SpecSession == Init /\ [][NextSession]_vars

\* ------------------------------------------------------------------ claims
Range(seq) == {seq[i] : i \in 1..Len(seq)}

IsErrorResult(r) ==
    /\ Len(r.response) >= 1
    /\ r.response[1] = "Error: "
    /\ r.download_links = <<>>
    /\ r.images = <<>>

C2_FailureIsolated ==
    (/\ pc = "sleep"
     /\ batch # <<>>
     /\ \A i \in 1..Len(batch) : batch[i].name \in available_functions)
    => \A c \in failed : \A i \in 1..Len(batch) :
         (/\ batch[i].id # c
          /\ batch[i].arguments.valid
          /\ batch[i].arguments.keys = {"url"}) =>
           /\ batch[i].id \in Range(executed)
           /\ lastSub.made
           /\ \E j \in 1..Len(lastSub.outputs) :
                lastSub.outputs[j].tool_call_id = batch[i].id

\* C8: the loop polls again whenever the run is reported queued or in
\* progress, leaves the loop only on a terminal status (or through an error),
\* never returns normally while the run is queued, in progress or waiting for
\* tool outputs, and every started turn eventually returns.
C8_PollsUntilTerminal ==
    /\ [](pc = "read" => (run \in Terminal /\ remote = run))
    /\ []((pc = "done" /\ failure \in {"none", "list", "files"}) => remote \in Terminal)
    /\ [][(pc = "loop" /\ run \in Active /\ pc' # pc) => pc' = "retrieve"]_vars
    /\ ((pc = "msg") ~> (pc = "done"))

C8_Witness ==
    /\ pc = "done"
    /\ failure = "none"
    /\ nRA >= 1
    /\ remote = "completed"

\* C10: once a request or a tool lookup of the turn has failed, the run is
\* not polled again, no (second) submission is made, and the turn ends with a
\* response starting with "Error:" and empty download and image lists.
C10_FailureEndsTurnWithError ==
    failure # "none" =>
       /\ pc \in {"sleep", "loop", "done"}
       /\ pc \in {"sleep", "loop"} => run = "None"
       /\ pc = "done" => IsErrorResult(result)
       /\ nSub <= nRA

C10_Witness ==
    /\ pc = "done"
    /\ failure = "submit"
    /\ nSub = 1
    /\ IsErrorResult(result)

\* A run of an earlier turn is still with the service.
EarlierStillRunning == \E i \in DOMAIN earlier : earlier[i] \in StillRunning

\* C11: within one session at most one turn is in flight against the shared
\* thread, also after turns that ended in an error: a turn that is about to
\* append its user message (messages.create) or to create its run
\* (runs.create) finds no run of an earlier turn on the thread still queued,
\* in progress or awaiting tool outputs.
C11_OneTurnInFlight == pc \in {"msg", "create"} => ~EarlierStillRunning

\* --------------------------------------------------- one dispatch of a tool
\* Keys an argument mapping may hold.
ArgKeys == {"url", "badArg", "func", "tool_name"}

Pending == [kind |-> "pending", value |-> PyNone]

InitDispatch ==
    /\ InitLoop /\ InitAsst /\ InitSearch
    /\ tname \in available_functions
    /\ tkeys \in SUBSET ArgKeys
    /\ tbehaviour \in ToolBehaviours(tname)
    /\ tresult = Pending

\* output = safe_tool_call(function, function_name, **arguments)
Dispatch ==
    /\ tresult = Pending
    /\ tresult' = safe_tool_call(tname, tkeys, tbehaviour)
    /\ UNCHANGED <<tname, tkeys, tbehaviour>>
    /\ UNCHANGED <<loopVars, asstVars, searchVars>>

NextDispatch == Dispatch

SpecDispatch == InitDispatch /\ [][NextDispatch]_vars

\* C3: dispatching a registered tool never raises: it returns the tool's own
\* result when the tool returns a value, "No content returned from <tool>"
\* when the tool returns None, and "Error occurred in <tool>: <message>"
\* when the call of the tool raises.
C3_DispatchTotal ==
    tresult # Pending =>
       LET r == CallFunction(tkeys, tbehaviour) IN
         /\ tresult.kind = "return"
         /\ (r.kind = "return" /\ r.value # PyNone) => tresult = r
         /\ (r.kind = "return" /\ r.value = PyNone) =>
               tresult.value = PyStr(<<"No content returned from ", tname>>)
         /\ r.kind = "raise" =>
               tresult.value = PyStr(<<"Error occurred in ", tname, ": ">> \o r.value.v)

\* ------------------------------------------------- the assistant identifier
\* The identifier written into the branch of get_or_create_assistant that
\* finds the file.
HardCodedId == "asst_HOYn8BMsGeAhIkXiSTh4iivx"

\* Identifiers the service hands out for newly created assistants.
ServiceIds == {"asst_1", "asst_2", "asst_3"}

InitAssistant ==
    /\ InitLoop /\ InitTool /\ InitSearch
    /\ file = "absent"
    /\ assistants = {}
    /\ assistant_id = "unset"
    /\ launches = 0
    /\ fileAtLaunch = "absent"
    /\ created = FALSE

\* One application run: main calls get_or_create_assistant.
Launch ==
    /\ launches < MaxLaunches
    /\ launches' = launches + 1
    /\ fileAtLaunch' = file
    /\ IF file # "absent"
       THEN /\ assistant_id' = HardCodedId
            /\ created' = FALSE
            /\ UNCHANGED <<file, assistants>>
       ELSE \/ \E id \in ServiceIds \ assistants :
                 /\ assistants' = assistants \cup {id}
                 /\ created' = TRUE
                 /\ \/ /\ file' = id
                       /\ assistant_id' = id
                    \/ /\ assistant_id' = "None"
                       /\ UNCHANGED file
            \/ /\ assistant_id' = "None"
               /\ created' = FALSE
               /\ UNCHANGED <<file, assistants>>
    /\ UNCHANGED <<loopVars, toolVars, searchVars>>

\* Between runs the file may be removed from the working directory.
RemoveFile ==
    /\ file # "absent"
    /\ file' = "absent"
    /\ UNCHANGED <<assistants, assistant_id, launches, fileAtLaunch, created>>
    /\ UNCHANGED <<loopVars, toolVars, searchVars>>

NextAssistant == Launch \/ RemoveFile

SpecAssistant == InitAssistant /\ [][NextAssistant]_vars

\* C4: a run creates an assistant only when no identifier is persisted and
\* persists the one it created; a run that finds an identifier in the file
\* returns that identifier and creates nothing.
C4_PersistedIdReused ==
    launches >= 1 =>
       /\ created => fileAtLaunch = "absent"
       /\ (created /\ assistant_id # "None") => file \in {assistant_id, "absent"}
       /\ fileAtLaunch # "absent" => (assistant_id = fileAtLaunch /\ ~created)

\* ------------------------------------------------------ text of an element
\* A text is the sequence of its tokens; " " is whitespace.
Tokens == {"NPI", ":", " ", "1", "2"}

\* str.strip()
RECURSIVE LStrip(_)
LStrip(t) == IF t # <<>> /\ Head(t) = " " THEN LStrip(Tail(t)) ELSE t

RECURSIVE RStrip(_)
RStrip(t) ==
    IF t # <<>> /\ t[Len(t)] = " " THEN RStrip(SubSeq(t, 1, Len(t) - 1)) ELSE t

Strip(t) == RStrip(LStrip(t))

\* "x" in text
Contains(t, tok) == \E i \in 1..Len(t) : t[i] = tok

\* str.split(sep): the segments between the separators.
RECURSIVE SplitAcc(_, _, _, _)
SplitAcc(t, sep, cur, acc) ==
    IF t = <<>> THEN Append(acc, cur)
    ELSE IF Head(t) = sep THEN SplitAcc(Tail(t), sep, <<>>, Append(acc, cur))
    ELSE SplitAcc(Tail(t), sep, Append(cur, Head(t)), acc)

Split(t, sep) == SplitAcc(t, sep, <<>>, <<>>)

\* ------------------------------------------------------------- page markup
\* A directorist-listing-single__header div: no <a>, or an <a> with its href
\* attribute and text.
NoLink == [present |-> FALSE, hasHref |-> FALSE, href |-> <<>>, text |-> <<>>]
Link(href, text) == [present |-> TRUE, hasHref |-> TRUE, href |-> href, text |-> text]
LinkWithoutHref(text) == [present |-> TRUE, hasHref |-> FALSE, href |-> <<>>, text |-> text]
HeaderDiv(link) == [kind |-> "header", link |-> link, info |-> FALSE, items |-> <<>>]

\* A directorist-listing-single__content div: with or without the info list
\* and its <li> items.
ContentDiv(info, items) == [kind |-> "content", link |-> NoLink, info |-> info, items |-> items]

\* An <li>: its directorist-listing-card-text div (with the style of its <i>),
\* its directorist-listing-card-phone div and its directorist-listing-card-select div.
NoPart == [present |-> FALSE, style |-> {}, text |-> <<>>]
Part(style, text) == [present |-> TRUE, style |-> style, text |-> text]
Li(textDiv, phoneDiv, selectDiv) == [text |-> textDiv, phone |-> phoneDiv, select |-> selectDiv]

\* A wrapper element holding one listing's blocks as its children.
Card(children) == [kind |-> "card", children |-> children]

\* --------------------------------------------------------------- extraction
\* data[key] = value
SetItem(data, key, value) == (key :> value) @@ data

EmptyDict == [k \in {} |-> <<>>]

\* The body of "for li in list_items" (lines 121-145): the updated data, or
\* the IndexError of split(":")[1].
ExtractLi(data, li) ==
    LET icon_style == li.text.style
        text_content == Strip(li.text.text)
        d1 == IF li.text.present /\ "comment-solid" \in icon_style
                 /\ ~Contains(text_content, "NPI")
              THEN SetItem(data, "clinic", text_content) ELSE data
        npiBranch == /\ li.text.present
                     /\ "map-marker-solid" \notin icon_style
                     /\ "comment-solid" \in icon_style
                     /\ Contains(text_content, "NPI")
        npiParts == Split(text_content, ":")
        d2 == IF li.text.present /\ "map-marker-solid" \in icon_style
              THEN SetItem(d1, "address", text_content)
              ELSE IF npiBranch /\ Len(npiParts) >= 2
              THEN SetItem(d1, "NPI", Strip(npiParts[2]))
              ELSE d1
        d3 == IF li.phone.present THEN SetItem(d2, "phone", Strip(li.phone.text)) ELSE d2
        selBranch == li.select.present /\ "check-circle-solid" \in li.select.style
        selParts == Split(li.select.text, ":")
        d4 == IF selBranch /\ Len(selParts) >= 2
              THEN SetItem(d3, "accepting_patients", Strip(selParts[2]))
              ELSE d3
    IN  IF (npiBranch /\ Len(npiParts) < 2) \/ (selBranch /\ Len(selParts) < 2)
        THEN Raise("list index out of range")
        ELSE Return(d4)

RECURSIVE ExtractItems(_, _)
ExtractItems(data, items) ==
    IF items = <<>> THEN Return(data)
    ELSE LET r == ExtractLi(data, Head(items))
         IN  IF r.kind = "raise" THEN r ELSE ExtractItems(r.value, Tail(items))

\* listing.find_previous_sibling('div', class_=...header): the nearest
\* sibling before position i that is a header, 0 if there is none.
RECURSIVE FindPreviousSibling(_, _)
FindPreviousSibling(siblings, i) ==
    IF i <= 1 THEN 0
    ELSE IF siblings[i - 1].kind = "header" THEN i - 1
    ELSE FindPreviousSibling(siblings, i - 1)

\* The body of "for listing in listings" (lines 106-147) for the content
\* block at position i of its parent's children.
ExtractListing(siblings, i) ==
    LET h == FindPreviousSibling(siblings, i)
        d0 == IF h # 0 /\ siblings[h].link.present
              THEN SetItem(SetItem(EmptyDict, "href", siblings[h].link.href),
                           "name", Strip(siblings[h].link.text))
              ELSE EmptyDict
    IN  IF h # 0 /\ siblings[h].link.present /\ ~siblings[h].link.hasHref
        THEN Raise("'href'")
        ELSE IF siblings[i].info THEN ExtractItems(d0, siblings[i].items)
        ELSE Return(d0)

\* soup.find_all('div', class_=...content) in document order, each listing
\* with the children of its parent: <<siblings, position>>.
RECURSIVE ListingsIn(_, _)
ListingsIn(siblings, i) ==
    IF i > Len(siblings) THEN <<>>
    ELSE (IF siblings[i].kind = "content" THEN << <<siblings, i>> >>
          ELSE IF siblings[i].kind = "card" THEN ListingsIn(siblings[i].children, 1)
          ELSE <<>>) \o ListingsIn(siblings, i + 1)

RECURSIVE ExtractAll(_, _)
ExtractAll(listings, results) ==
    IF listings = <<>> THEN Return(results)
    ELSE LET r == ExtractListing(Head(listings)[1], Head(listings)[2])
         IN  IF r.kind = "raise" THEN r
             ELSE ExtractAll(Tail(listings), Append(results, r.value))

extract_data(soup) == ExtractAll(ListingsIn(soup, 1), <<>>)

\* ---------------------------------------------------- scrape_provider_search
PyList(items) == [type |-> "list", v |-> items]

ErrorPayload == PyDict("error" :> <<"Failed to scrape provider search results.">>)

\* What requests.get may come back with: a status code, or 0 for a
\* requests.exceptions.RequestException.
StatusCodes == {200, 404, 500, 0}

\* fetch_html_via_proxy: the parsed page on status 200, None otherwise.
fetch_html_via_proxy(code) == IF code = 200 THEN "soup" ELSE "None"

\* Variant: an empty extraction serialised like any other.
ScrapeResultKeepsEmpty(soup, markup) ==
    IF soup = "None" THEN Return(JsonDumps(ErrorPayload))
    ELSE LET extracted_data == extract_data(markup)
         IN  IF extracted_data.kind = "raise" THEN extracted_data
             ELSE Return(JsonDumps(PyList(extracted_data.value)))

\* Lines 155-165 of scrape_provider_search: what it returns (or raises) for
\* the fetched soup.
ScrapeResult(soup, markup) ==
    IF soup = "None" THEN Return(JsonDumps(ErrorPayload))
    ELSE LET extracted_data == extract_data(markup)
         IN  IF extracted_data.kind = "raise" THEN extracted_data
             ELSE IF extracted_data.value # <<>>
             THEN Return(JsonDumps(PyList(extracted_data.value)))
             ELSE Return(JsonDumps(ErrorPayload))

\* The pages the model draws from.
Markers == {"comment-solid", "map-marker-solid"}

Texts == UNION {[1..n -> Tokens] : n \in 0..MaxTextLen}

LinkA == Link(<<"/a">>, <<" ", "A", " ">>)
LinkB == Link(<<"/b">>, <<"B">>)

Headers ==
    {HeaderDiv(NoLink), HeaderDiv(LinkA), HeaderDiv(LinkB),
     HeaderDiv(LinkWithoutHref(<<"C">>))}

ClinicLi == Li(Part({"comment-solid"}, <<"Clinic">>), NoPart, NoPart)
AddressLi == Li(Part({"map-marker-solid"}, <<" ", "Street">>), NoPart, NoPart)
PhoneLi == Li(NoPart, Part({}, <<"555">>), NoPart)
SelectLi == Li(NoPart, NoPart, Part({"check-circle-solid"}, <<"Accepting", ":", " ", "Yes">>))

Contents ==
    {ContentDiv(FALSE, <<>>), ContentDiv(TRUE, <<>>), ContentDiv(TRUE, <<ClinicLi>>),
     ContentDiv(TRUE, <<ClinicLi, AddressLi, PhoneLi, SelectLi>>)}

Cards ==
    {Card(<<HeaderDiv(LinkB), c>>) : c \in Contents} \cup {Card(<<c>>) : c \in Contents}

Nodes == Headers \cup Contents \cup Cards

\* Pages of up to MaxNodes top-level nodes.
StructurePages == UNION {[1..n -> Nodes] : n \in 0..MaxNodes}

\* Pages of one listing with one info-list item of any icon style and text.
ItemPage(style, text) ==
    <<HeaderDiv(LinkA), ContentDiv(TRUE, <<Li(Part(style, text), NoPart, NoPart)>>)>>

ItemPages == {ItemPage(st, t) : st \in SUBSET Markers, t \in Texts}

InitScrape ==
    /\ InitLoop /\ InitAsst /\ InitTool
    /\ page \in StructurePages \cup ItemPages
    /\ status_code = 0
    /\ fetched = ""
    /\ sresult = Pending
    /\ spc = "fetch"

\* soup = fetch_html_via_proxy(url)
FetchHtml ==
    /\ spc = "fetch"
    /\ \E code \in StatusCodes :
         /\ status_code' = code
         /\ fetched' = fetch_html_via_proxy(code)
    /\ spc' = "extract"
    /\ UNCHANGED <<page, sresult>>
    /\ UNCHANGED <<loopVars, asstVars, toolVars>>

\* The rest of scrape_provider_search.
ScrapeReturn ==
    /\ spc = "extract"
    /\ sresult' = ScrapeResult(fetched, page)
    /\ spc' = "done"
    /\ UNCHANGED <<page, status_code, fetched>>
    /\ UNCHANGED <<loopVars, asstVars, toolVars>>

NextScrape == FetchHtml \/ ScrapeReturn

SpecScrape == InitScrape /\ [][NextScrape]_vars

\* The record sequence a finished search serialised, and its one record for
\* a page of a single listing.
Done200 == spc = "done" /\ status_code = 200

ReturnedList == sresult.kind = "return" /\ sresult.value.json.type = "list"

ReturnedError == sresult.kind = "return" /\ sresult.value.json.type = "dict"

\* The page is one header followed by one listing with a single item.
OneItemPage ==
    /\ Len(page) = 2
    /\ page[2].kind = "content"
    /\ page[2].info
    /\ Len(page[2].items) = 1
    /\ page[2].items[1].text.present

TheItem == page[2].items[1].text

\* C5: search returns the error object when the fetch fails (non-200 status
\* or transport exception) and when the fetch succeeds but extraction yields
\* no record; when extraction yields a non-empty sequence it returns that
\* sequence serialised; a returned value is always one of these two shapes.
C5_SearchResultShapes ==
    spc = "done" =>
       LET extracted == extract_data(page) IN
         /\ status_code # 200 => (ReturnedError /\ sresult.value.json = ErrorPayload)
         /\ (status_code = 200 /\ extracted.kind = "return" /\ extracted.value = <<>>)
              => (ReturnedError /\ sresult.value.json = ErrorPayload)
         /\ (status_code = 200 /\ extracted.kind = "return" /\ extracted.value # <<>>)
              => (ReturnedList /\ sresult.value.json.v = extracted.value)
         /\ sresult.kind = "return" =>
              \/ (ReturnedError /\ sresult.value.json = ErrorPayload)
              \/ (ReturnedList /\ sresult.value.json.v # <<>>)

C5_Witness ==
    /\ Done200
    /\ page # <<>>
    /\ extract_data(page) = Return(<<>>)
    /\ ReturnedError

\* The header a listing owns: the header block right before it among its
\* siblings, 0 if the block before it is not a header.
OwnHeader(siblings, i) ==
    IF i > 1 /\ siblings[i - 1].kind = "header" THEN i - 1 ELSE 0

\* C6: every returned record takes href and name from the header of its own
\* listing block only: from that header's link when it has one, and unset
\* when the listing has no header of its own, whatever precedes it.
C6_RecordFromOneListing ==
    (Done200 /\ ReturnedList) =>
       LET recs == sresult.value.json.v
           ls == ListingsIn(page, 1)
       IN  /\ Len(recs) = Len(ls)
           /\ \A k \in 1..Len(ls) :
                LET sib == ls[k][1]
                    h == OwnHeader(sib, ls[k][2])
                IN  IF h # 0 /\ sib[h].link.present
                    THEN /\ "href" \in DOMAIN recs[k]
                         /\ recs[k]["href"] = sib[h].link.href
                         /\ recs[k]["name"] = Strip(sib[h].link.text)
                    ELSE /\ "href" \notin DOMAIN recs[k]
                         /\ "name" \notin DOMAIN recs[k]

\* The text after the first ":" of a text that holds one.
RECURSIVE AfterFirstColon(_)
AfterFirstColon(t) ==
    IF t = <<>> THEN <<>>
    ELSE IF Head(t) = ":" THEN Tail(t)
    ELSE AfterFirstColon(Tail(t))

\* C7: an item whose icon style holds the comment marker (stated here for
\* styles holding no other marker) sets NPI to the trimmed text after the
\* first colon and no clinic when its text contains "NPI", and sets clinic
\* to the full trimmed text and no NPI otherwise.
C7_CommentItemSetsNpiOrClinic ==
    (Done200 /\ OneItemPage /\ TheItem.style = {"comment-solid"}) =>
       LET text_content == Strip(TheItem.text) IN
         IF Contains(text_content, "NPI")
         THEN Contains(text_content, ":") =>
                /\ ReturnedList
                /\ "clinic" \notin DOMAIN sresult.value.json.v[1]
                /\ "NPI" \in DOMAIN sresult.value.json.v[1]
                /\ sresult.value.json.v[1]["NPI"] = Strip(AfterFirstColon(text_content))
         ELSE /\ ReturnedList
              /\ "NPI" \notin DOMAIN sresult.value.json.v[1]
              /\ "clinic" \in DOMAIN sresult.value.json.v[1]
              /\ sresult.value.json.v[1]["clinic"] = text_content

\* The keys among clinic and NPI that extraction sets for an item.
ClinicNpiKeys(style, text) ==
    LET r == ExtractLi(EmptyDict, Li(Part(style, text), NoPart, NoPart))
    IN  IF r.kind = "raise" THEN {"raise"} ELSE DOMAIN r.value \cap {"clinic", "NPI"}

\* C9: an item whose icon style holds the map-marker marker sets address to
\* the trimmed text, and sets clinic or NPI exactly as the same item without
\* the map-marker marker does.
C9_AddressIndependentOfClinicNpi ==
    (Done200 /\ OneItemPage /\ "map-marker-solid" \in TheItem.style
       /\ (Contains(TheItem.text, "NPI") => Contains(TheItem.text, ":"))) =>
       /\ ReturnedList
       /\ "address" \in DOMAIN sresult.value.json.v[1]
       /\ sresult.value.json.v[1]["address"] = Strip(TheItem.text)
       /\ DOMAIN sresult.value.json.v[1] \cap {"clinic", "NPI"}
            = ClinicNpiKeys(TheItem.style \ {"map-marker-solid"}, TheItem.text)

====
